---- MODULE Spec2Model ----
(***************************************************************************)
(* Tic-tac-toe GameBoard (src/mainwindow.cpp): the 3x3 board model, the    *)
(* turn controller (onCellClicked / aiMove / switchPlayer) and the minimax *)
(* search, together with the part of GameDialog that listens to the        *)
(* board's gameOver signal.                                                *)
(*                                                                         *)
(* A GameBoard object is a record g; every C++ method is an operator from  *)
(* the object before the call to the object after it (and the return       *)
(* value).  The variables hold the fields of the one live GameBoard, the   *)
(* Qt event-loop state that belongs to it (pending single-shot timers,     *)
(* open modal message boxes) and the last call made on it.  The lists of   *)
(* the dialog (GameDialog::moves, MainWindow::gameHistory), which no       *)
(* GameBoard method reads, are followed in SpecDialog only; the other      *)
(* specifications leave them empty.  The list of saved games the dialog    *)
(* offers for replay (comboBoxGameList) is followed in SpecReplay.         *)
(***************************************************************************)
EXTENDS Integers, Sequences, FiniteSets, TLC

VARIABLES
    board,          \* GameBoard::board, board[row][col] in {" ", "X", "O"}
    buttons,        \* buttons[row][col]: is that QPushButton enabled
    currentPlayer,  \* GameBoard::currentPlayer
    gameActive,     \* GameBoard::gameActive
    gameMode,       \* GameBoard::gameMode (1 = PvP, 2 = PvAI)
    timers,         \* pending QTimer::singleShot(100, this, aiMove) timers
    connected,      \* gameOver is connected to GameDialog::onGameOver
    dialogs,        \* handlers suspended in onGameOver's modal QMessageBox
    signals,        \* signals emitted by the last handler, in order
    last,           \* the last call: its name and (for moves) its result
    moves,          \* GameDialog::moves
    gameHistory,    \* MainWindow::gameHistory
    gameOvers,      \* the winner arguments of the suspended onGameOver calls
    comboBoxGameList \* the item texts of GameDialog::comboBoxGameList

vars == <<board, buttons, currentPlayer, gameActive, gameMode, timers,
          connected, dialogs, signals, last, moves, gameHistory,
          gameOvers, comboBoxGameList>>

\* Most single-shot timers that may be pending at once.
MaxTimers == 2

\* How far outside 0..2 the row and column arguments of a direct call range.
OutOfRange == 1

Idx == 0 .. 2
Coords == (0 - OutOfRange) .. (2 + OutOfRange)
Players == {"X", "O"}
Modes == {1, 2}

Other(player) == IF player = "X" THEN "O" ELSE "X"

-----------------------------------------------------------------------------
(* Helper functions for minimax evaluation *)

evalIsWinner(b, player) ==
    \/ \E i \in Idx :
          \/ (b[i][0] = player /\ b[i][1] = player /\ b[i][2] = player)
          \/ (b[0][i] = player /\ b[1][i] = player /\ b[2][i] = player)
    \/ (b[0][0] = player /\ b[1][1] = player /\ b[2][2] = player)
    \/ (b[0][2] = player /\ b[1][1] = player /\ b[2][0] = player)

evalIsFull(b) == \A i \in Idx : \A j \in Idx : b[i][j] # " "

-----------------------------------------------------------------------------
(* GameBoard *)

Signal(name, row, col, arg) ==
    [sig |-> name, row |-> row, col |-> col, arg |-> arg]

emit(g, s) == [g EXCEPT !.signals = Append(@, s)]

\* Variant: gameActive is not set again.
resetBoardStaysDisabled(g) ==
    [g EXCEPT !.board = [row \in Idx |-> [col \in Idx |-> " "]],
              !.buttons = [row \in Idx |-> [col \in Idx |-> TRUE]],
              !.currentPlayer = "X"]

resetBoard(g) ==
    [g EXCEPT !.board = [row \in Idx |-> [col \in Idx |-> " "]],
              !.buttons = [row \in Idx |-> [col \in Idx |-> TRUE]],
              !.currentPlayer = "X",
              !.gameActive = TRUE]

\* The constructor: the member initialisers, then initializeBoard(), which
\* creates the nine buttons and ends in resetBoard().
NewGameBoard(mode, conn) ==
    resetBoard([board |-> [row \in Idx |-> [col \in Idx |-> " "]],
                buttons |-> [row \in Idx |-> [col \in Idx |-> FALSE]],
                currentPlayer |-> "X",
                gameActive |-> TRUE,
                gameMode |-> mode,
                timers |-> 0,
                connected |-> conn,
                dialogs |-> 0,
                signals |-> <<>>])

updateButtonText(g, row, col, text) ==
    [g EXCEPT !.buttons[row][col] = FALSE]

\* Variant: the Empty test is missing, an occupied cell is overwritten.
makeMoveOverwrites(g, row, col) ==
    /\ row >= 0 /\ row < 3 /\ col >= 0 /\ col < 3
    /\ g.gameActive

\* Variant: the gameActive test is missing.
makeMoveIgnoresActive(g, row, col) ==
    /\ row >= 0 /\ row < 3 /\ col >= 0 /\ col < 3
    /\ g.board[row][col] = " "

makeMoveOk(g, row, col) ==
    /\ row >= 0 /\ row < 3 /\ col >= 0 /\ col < 3
    /\ g.board[row][col] = " "
    /\ g.gameActive

\* Variant: row and column are swapped when the mark is written.
makeMoveTransposed(g, row, col, player) ==
    IF makeMoveOk(g, row, col)
    THEN [g |-> updateButtonText([g EXCEPT !.board[col][row] = player],
                                 row, col, player),
          ret |-> TRUE]
    ELSE [g |-> g, ret |-> FALSE]

\* Variant: the mark is written before the cell is tested.
makeMoveWritesFirst(g, row, col, player) ==
    IF row >= 0 /\ row < 3 /\ col >= 0 /\ col < 3 /\ g.gameActive
    THEN [g |-> updateButtonText([g EXCEPT !.board[row][col] = player],
                                 row, col, player),
          ret |-> g.board[row][col] = " "]
    ELSE [g |-> g, ret |-> FALSE]

makeMove(g, row, col, player) ==
    IF makeMoveOk(g, row, col)
    THEN [g |-> updateButtonText([g EXCEPT !.board[row][col] = player],
                                 row, col, player),
          ret |-> TRUE]
    ELSE [g |-> g, ret |-> FALSE]

\* Variant: the second diagonal ends in the wrong corner.
checkWinnerWrongCorner(g, player) ==
    \/ \E i \in Idx :
          \/ (g.board[i][0] = player /\ g.board[i][1] = player
                                     /\ g.board[i][2] = player)
          \/ (g.board[0][i] = player /\ g.board[1][i] = player
                                     /\ g.board[2][i] = player)
    \/ (g.board[0][0] = player /\ g.board[1][1] = player
                               /\ g.board[2][2] = player)
    \/ (g.board[0][2] = player /\ g.board[1][1] = player
                               /\ g.board[2][2] = player)

checkWinner(g, player) ==
    \/ \E i \in Idx :
          \/ (g.board[i][0] = player /\ g.board[i][1] = player
                                     /\ g.board[i][2] = player)
          \/ (g.board[0][i] = player /\ g.board[1][i] = player
                                     /\ g.board[2][i] = player)
    \/ (g.board[0][0] = player /\ g.board[1][1] = player
                               /\ g.board[2][2] = player)
    \/ (g.board[0][2] = player /\ g.board[1][1] = player
                               /\ g.board[2][0] = player)

\* Variant: the scan stops after the first row.
isFullFirstRow(g) == \A col \in Idx : g.board[0][col] # " "

isFull(g) == \A row \in Idx : \A col \in Idx : g.board[row][col] # " "

triggerAiMove(g) ==
    IF ~g.gameActive \/ g.currentPlayer # "O" \/ g.gameMode # 2
    THEN g
    ELSE [g EXCEPT !.timers = @ + 1]

\* Variant: the timer is started without looking at the game mode.
switchPlayerAnyMode(g) ==
    LET g1 == [g EXCEPT !.currentPlayer = Other(@)]
    IN  IF g1.currentPlayer = "O" /\ g1.gameActive
        THEN [g1 EXCEPT !.timers = @ + 1]
        ELSE g1

switchPlayer(g) ==
    LET g1 == [g EXCEPT !.currentPlayer = Other(@)]
    IN  IF g1.gameMode = 2 /\ g1.currentPlayer = "O" /\ g1.gameActive
        THEN triggerAiMove(g1)
        ELSE g1

disableBoard(g) ==
    [g EXCEPT !.buttons = [row \in Idx |-> [col \in Idx |-> FALSE]],
              !.gameActive = FALSE]

enableBoard(g) ==
    [g EXCEPT !.buttons = [row \in Idx |-> [col \in Idx |->
                              IF g.board[row][col] = " "
                              THEN TRUE ELSE g.buttons[row][col]]],
              !.gameActive = TRUE]

-----------------------------------------------------------------------------
(* The search *)

SetMax(S) == CHOOSE s \in S : \A t \in S : s >= t

SetMin(S) == CHOOSE s \in S : \A t \in S : s =< t

EmptyCells(b) == {c \in Idx \X Idx : b[c[1]][c[2]] = " "}

\* bestScore starts at -1000 (O) or 1000 (X) and is folded with std::max or
\* std::min over the scores of the Empty cells; every cell is explored on
\* the board with only that cell marked, the mark being retracted after it.
RECURSIVE minimax(_, _)
\* Variant: X takes the greatest score as well.
minimaxBothMaximise(currentBoard, player) ==
    IF evalIsWinner(currentBoard, "O") THEN 10
    ELSE IF evalIsWinner(currentBoard, "X") THEN -10
    ELSE IF evalIsFull(currentBoard) THEN 0
    ELSE IF player = "O"
    THEN SetMax({-1000} \cup
                {minimax([currentBoard EXCEPT ![c[1]][c[2]] = "O"], "X") :
                     c \in EmptyCells(currentBoard)})
    ELSE SetMax({-1000} \cup
                {minimax([currentBoard EXCEPT ![c[1]][c[2]] = "X"], "O") :
                     c \in EmptyCells(currentBoard)})

\* Variant: X's line is tested before O's.
minimaxXLineFirst(currentBoard, player) ==
    IF evalIsWinner(currentBoard, "X") THEN -10
    ELSE IF evalIsWinner(currentBoard, "O") THEN 10
    ELSE IF evalIsFull(currentBoard) THEN 0
    ELSE IF player = "O"
    THEN SetMax({-1000} \cup
                {minimax([currentBoard EXCEPT ![c[1]][c[2]] = "O"], "X") :
                     c \in EmptyCells(currentBoard)})
    ELSE SetMin({1000} \cup
                {minimax([currentBoard EXCEPT ![c[1]][c[2]] = "X"], "O") :
                     c \in EmptyCells(currentBoard)})

\* Variant: a line of X is not seen, only the full board ends the search.
minimaxIgnoresXLine(currentBoard, player) ==
    IF evalIsWinner(currentBoard, "O") THEN 10
    ELSE IF evalIsFull(currentBoard) THEN 0
    ELSE IF player = "O"
    THEN SetMax({-1000} \cup
                {minimax([currentBoard EXCEPT ![c[1]][c[2]] = "O"], "X") :
                     c \in EmptyCells(currentBoard)})
    ELSE SetMin({1000} \cup
                {minimax([currentBoard EXCEPT ![c[1]][c[2]] = "X"], "O") :
                     c \in EmptyCells(currentBoard)})

minimax(currentBoard, player) ==
    IF evalIsWinner(currentBoard, "O") THEN 10
    ELSE IF evalIsWinner(currentBoard, "X") THEN -10
    ELSE IF evalIsFull(currentBoard) THEN 0
    ELSE IF player = "O"
    THEN SetMax({-1000} \cup
                {minimax([currentBoard EXCEPT ![c[1]][c[2]] = "O"], "X") :
                     c \in EmptyCells(currentBoard)})
    ELSE SetMin({1000} \cup
                {minimax([currentBoard EXCEPT ![c[1]][c[2]] = "X"], "O") :
                     c \in EmptyCells(currentBoard)})

QPoint(x, y) == [x |-> x, y |-> y]

\* The scan of findBestMove from cell k (row-major) on, with the best score
\* and move found so far.
RECURSIVE findBestMoveScan(_, _, _, _)
\* Variant: score >= bestScore, the last cell of the best score is kept.
findBestMoveScanKeepsLast(boardCopy, k, bestScore, bestMove) ==
    IF k = 9 THEN bestMove
    ELSE LET i == k \div 3
             j == k % 3
         IN  IF boardCopy[i][j] = " "
             THEN LET score == minimax([boardCopy EXCEPT ![i][j] = "O"], "X")
                  IN  IF score >= bestScore
                      THEN findBestMoveScan(boardCopy, k + 1, score,
                                            QPoint(i, j))
                      ELSE findBestMoveScan(boardCopy, k + 1, bestScore,
                                            bestMove)
             ELSE findBestMoveScan(boardCopy, k + 1, bestScore, bestMove)

\* Variant: score < bestScore, no cell ever replaces the initial no-move.
findBestMoveScanLowest(boardCopy, k, bestScore, bestMove) ==
    IF k = 9 THEN bestMove
    ELSE LET i == k \div 3
             j == k % 3
         IN  IF boardCopy[i][j] = " "
             THEN LET score == minimax([boardCopy EXCEPT ![i][j] = "O"], "X")
                  IN  IF score < bestScore
                      THEN findBestMoveScan(boardCopy, k + 1, score,
                                            QPoint(i, j))
                      ELSE findBestMoveScan(boardCopy, k + 1, bestScore,
                                            bestMove)
             ELSE findBestMoveScan(boardCopy, k + 1, bestScore, bestMove)

\* Variant: the trial move is scored as if O were to move again.
findBestMoveScanScoresForO(boardCopy, k, bestScore, bestMove) ==
    IF k = 9 THEN bestMove
    ELSE LET i == k \div 3
             j == k % 3
         IN  IF boardCopy[i][j] = " "
             THEN LET score == minimax([boardCopy EXCEPT ![i][j] = "O"], "O")
                  IN  IF score > bestScore
                      THEN findBestMoveScan(boardCopy, k + 1, score,
                                            QPoint(i, j))
                      ELSE findBestMoveScan(boardCopy, k + 1, bestScore,
                                            bestMove)
             ELSE findBestMoveScan(boardCopy, k + 1, bestScore, bestMove)

findBestMoveScan(boardCopy, k, bestScore, bestMove) ==
    IF k = 9 THEN bestMove
    ELSE LET i == k \div 3
             j == k % 3
         IN  IF boardCopy[i][j] = " "
             THEN LET score == minimax([boardCopy EXCEPT ![i][j] = "O"], "X")
                  IN  IF score > bestScore
                      THEN findBestMoveScan(boardCopy, k + 1, score,
                                            QPoint(i, j))
                      ELSE findBestMoveScan(boardCopy, k + 1, bestScore,
                                            bestMove)
             ELSE findBestMoveScan(boardCopy, k + 1, bestScore, bestMove)

\* Variant: bestScore starts at 0 instead of -1000.
findBestMoveFromZero(g) == findBestMoveScan(g.board, 0, 0, QPoint(-1, -1))

findBestMove(g) == findBestMoveScan(g.board, 0, -1000, QPoint(-1, -1))

-----------------------------------------------------------------------------
(* The turn controller and the gameOver listener *)

\* GameDialog::onGameOver up to its modal QMessageBox::information: the
\* handler that emitted gameOver stays suspended in the message box's event
\* loop, in which pending timers still fire.
onGameOverOpen(g) == [g EXCEPT !.dialogs = @ + 1]

\* Variant: the board is not reset when the message box is closed.
onGameOverCloseKeepsBoard(g) ==
    [enableBoard(g) EXCEPT !.dialogs = @ - 1]

\* GameDialog::onGameOver once the message box is closed.
onGameOverClose(g) ==
    [enableBoard(resetBoard(g)) EXCEPT !.dialogs = @ - 1]

\* What onCellClicked and aiMove do after emitting gameOver.
afterGameOver(g) == [disableBoard(g) EXCEPT !.gameActive = FALSE]

emitGameOver(g, winner) ==
    LET g1 == emit(g, Signal("gameOver", -1, -1, winner))
    IN  IF g1.connected THEN onGameOverOpen(g1) ELSE afterGameOver(g1)

winnerName(g) ==
    IF g.gameMode = 1
    THEN (IF g.currentPlayer = "X" THEN "Player 1" ELSE "Player 2")
    ELSE (IF g.currentPlayer = "X" THEN "You" ELSE "AI")

\* Variant: the turn is switched before the outcome is evaluated.
onCellClickedSwitchFirst(g, row, col) ==
    IF ~g.gameActive THEN [g |-> g, ret |-> FALSE]
    ELSE LET m == makeMove(g, row, col, g.currentPlayer)
         IN  IF m.ret
             THEN LET g1 == switchPlayer(emit(m.g, Signal("moveMade", row, col,
                                                          g.currentPlayer)))
                  IN  [g |-> IF checkWinner(g1, g1.currentPlayer)
                             THEN emitGameOver(g1, winnerName(g1))
                             ELSE IF isFull(g1)
                             THEN emitGameOver(g1, "Draw")
                             ELSE g1,
                       ret |-> TRUE]
             ELSE [g |-> g, ret |-> FALSE]

\* Variant: the full board is tested before the winner.
onCellClickedDrawFirst(g, row, col) ==
    IF ~g.gameActive THEN [g |-> g, ret |-> FALSE]
    ELSE LET m == makeMove(g, row, col, g.currentPlayer)
         IN  IF m.ret
             THEN LET g1 == emit(m.g, Signal("moveMade", row, col,
                                             g.currentPlayer))
                  IN  [g |-> IF isFull(g1)
                             THEN emitGameOver(g1, "Draw")
                             ELSE IF checkWinner(g1, g1.currentPlayer)
                             THEN emitGameOver(g1, winnerName(g1))
                             ELSE switchPlayer(g1),
                       ret |-> TRUE]
             ELSE [g |-> g, ret |-> FALSE]

onCellClicked(g, row, col) ==
    IF ~g.gameActive THEN [g |-> g, ret |-> FALSE]
    ELSE LET m == makeMove(g, row, col, g.currentPlayer)
         IN  IF m.ret
             THEN LET g1 == emit(m.g, Signal("moveMade", row, col,
                                             g.currentPlayer))
                  IN  [g |-> IF checkWinner(g1, g1.currentPlayer)
                             THEN emitGameOver(g1, winnerName(g1))
                             ELSE IF isFull(g1)
                             THEN emitGameOver(g1, "Draw")
                             ELSE switchPlayer(g1),
                       ret |-> TRUE]
             ELSE [g |-> g, ret |-> FALSE]

\* Variant: the turn is not handed back after the computer's move.
aiMoveToKeepsTurn(g, bestMove) ==
    IF bestMove.x # -1 /\ bestMove.y # -1
    THEN LET m == makeMove(g, bestMove.x, bestMove.y, g.currentPlayer)
             g1 == emit(m.g, Signal("moveMade", bestMove.x, bestMove.y,
                                    g.currentPlayer))
         IN  [g |-> IF checkWinner(g1, g1.currentPlayer)
                    THEN emitGameOver(g1, "AI")
                    ELSE IF isFull(g1)
                    THEN emitGameOver(g1, "Draw")
                    ELSE g1,
              ret |-> m.ret]
    ELSE [g |-> g, ret |-> FALSE]

\* Variant: the computer's mark is written as 'X'.
aiMoveToMarksX(g, bestMove) ==
    IF bestMove.x # -1 /\ bestMove.y # -1
    THEN LET m == makeMove(g, bestMove.x, bestMove.y, "X")
             g1 == emit(m.g, Signal("moveMade", bestMove.x, bestMove.y,
                                    g.currentPlayer))
         IN  [g |-> IF checkWinner(g1, g1.currentPlayer)
                    THEN emitGameOver(g1, "AI")
                    ELSE IF isFull(g1)
                    THEN emitGameOver(g1, "Draw")
                    ELSE switchPlayer(g1),
              ret |-> m.ret]
    ELSE [g |-> g, ret |-> FALSE]

\* Variant: the computer's move tests the full board before the winner.
aiMoveToDrawFirst(g, bestMove) ==
    IF bestMove.x # -1 /\ bestMove.y # -1
    THEN LET m == makeMove(g, bestMove.x, bestMove.y, g.currentPlayer)
             g1 == emit(m.g, Signal("moveMade", bestMove.x, bestMove.y,
                                    g.currentPlayer))
         IN  [g |-> IF isFull(g1)
                    THEN emitGameOver(g1, "Draw")
                    ELSE IF checkWinner(g1, g1.currentPlayer)
                    THEN emitGameOver(g1, "AI")
                    ELSE switchPlayer(g1),
              ret |-> m.ret]
    ELSE [g |-> g, ret |-> FALSE]

\* aiMove once findBestMove has returned bestMove.
aiMoveTo(g, bestMove) ==
    IF bestMove.x # -1 /\ bestMove.y # -1
    THEN LET m == makeMove(g, bestMove.x, bestMove.y, g.currentPlayer)
             g1 == emit(m.g, Signal("moveMade", bestMove.x, bestMove.y,
                                    g.currentPlayer))
         IN  [g |-> IF checkWinner(g1, g1.currentPlayer)
                    THEN emitGameOver(g1, "AI")
                    ELSE IF isFull(g1)
                    THEN emitGameOver(g1, "Draw")
                    ELSE switchPlayer(g1),
              ret |-> m.ret]
    ELSE [g |-> g, ret |-> FALSE]

aiMove(g) ==
    IF ~g.gameActive \/ g.currentPlayer # "O" \/ g.gameMode # 2
    THEN [g |-> g, ret |-> FALSE]
    ELSE aiMoveTo(g, findBestMove(g))

-----------------------------------------------------------------------------
(* The state machine *)

This ==
    [board |-> board, buttons |-> buttons, currentPlayer |-> currentPlayer,
     gameActive |-> gameActive, gameMode |-> gameMode, timers |-> timers,
     connected |-> connected, dialogs |-> dialogs, signals |-> <<>>]

BecomesBoard(g) ==
    /\ board' = g.board
    /\ buttons' = g.buttons
    /\ currentPlayer' = g.currentPlayer
    /\ gameActive' = g.gameActive
    /\ gameMode' = g.gameMode
    /\ timers' = g.timers
    /\ connected' = g.connected
    /\ dialogs' = g.dialogs
    /\ signals' = g.signals

\* The object becomes g; the dialog's lists are not followed.
Becomes(g) ==
    /\ BecomesBoard(g)
    /\ UNCHANGED <<moves, gameHistory, gameOvers, comboBoxGameList>>

Call(op, ret) == [op |-> op, ret |-> ret]

Starts(g) ==
    /\ board = g.board
    /\ buttons = g.buttons
    /\ currentPlayer = g.currentPlayer
    /\ gameActive = g.gameActive
    /\ gameMode = g.gameMode
    /\ timers = g.timers
    /\ connected = g.connected
    /\ dialogs = g.dialogs
    /\ signals = g.signals
    /\ moves = <<>>
    /\ gameHistory = <<>>
    /\ gameOvers = <<>>
    /\ comboBoxGameList = <<"Select a game...">>

\* A GameBoard constructed on its own (as the tests do) or by
\* GameDialog::startGame, which connects its signals.
Init ==
    /\ \E mode \in Modes : \E conn \in BOOLEAN :
           Starts(NewGameBoard(mode, conn))
    /\ last = Call("new", FALSE)

\* A click on an enabled button of the board; the modal message box of
\* onGameOver keeps clicks away from the board while it is open.
Click(row, col) ==
    /\ dialogs = 0
    /\ buttons[row][col]
    /\ \E r \in {onCellClicked(This, row, col)} :
           /\ r.g.timers =< MaxTimers
           /\ Becomes(r.g)
           /\ last' = Call("onCellClicked", r.ret)

\* A pending single-shot timer fires and runs aiMove, in the main event loop
\* or in the event loop of an open message box.
TimerFires ==
    /\ timers > 0
    /\ \E r \in {aiMove([This EXCEPT !.timers = @ - 1])} :
           /\ r.g.timers =< MaxTimers
           /\ Becomes(r.g)
           /\ last' = Call("aiMove", r.ret)

\* The innermost message box is closed: onGameOver finishes, then the
\* handler that emitted gameOver.
CloseDialog ==
    /\ dialogs > 0
    /\ \E g \in {afterGameOver(onGameOverClose(This))} : Becomes(g)
    /\ last' = Call("onGameOver", FALSE)

\* GameDialog::startGame deletes the board (and with it its timers) and
\* creates a new one, connected to the dialog.
StartGame(mode) ==
    /\ dialogs = 0
    /\ \E g \in {NewGameBoard(mode, TRUE)} : Becomes(g)
    /\ last' = Call("startGame", FALSE)

ResetBoard ==
    /\ dialogs = 0
    /\ \E g \in {resetBoard(This)} : Becomes(g)
    /\ last' = Call("resetBoard", FALSE)

\* Direct calls of the public methods, as the tests make them.
MakeMove(row, col, player) ==
    /\ dialogs = 0
    /\ \E r \in {makeMove(This, row, col, player)} :
           /\ Becomes(r.g)
           /\ last' = Call("makeMove", r.ret)

DisableBoard ==
    /\ dialogs = 0
    /\ \E g \in {disableBoard(This)} : Becomes(g)
    /\ last' = Call("disableBoard", FALSE)

EnableBoard ==
    /\ dialogs = 0
    /\ \E g \in {enableBoard(This)} : Becomes(g)
    /\ last' = Call("enableBoard", FALSE)

\* The application: a board driven by clicks, timers and the dialog.
Next ==
    \/ \E row \in Idx : \E col \in Idx : Click(row, col)
    \/ TimerFires
    \/ CloseDialog
    \/ \E mode \in Modes : StartGame(mode)
    \/ ResetBoard

Spec == Init /\ [][Next]_vars

\* The board model on its own: a PvP board with nothing connected, driven
\* by direct calls of makeMove, resetBoard, disableBoard and enableBoard.
InitBoard ==
    /\ Starts(NewGameBoard(1, FALSE))
    /\ last = Call("new", FALSE)

NextBoard ==
    \/ \E row \in Coords : \E col \in Coords : \E player \in Players :
           MakeMove(row, col, player)
    \/ ResetBoard
    \/ DisableBoard
    \/ EnableBoard

SpecBoard == InitBoard /\ [][NextBoard]_vars

TypeOK ==
    /\ board \in [Idx -> [Idx -> {" ", "X", "O"}]]
    /\ buttons \in [Idx -> [Idx -> BOOLEAN]]
    /\ currentPlayer \in Players
    /\ gameActive \in BOOLEAN
    /\ gameMode \in Modes
    /\ timers \in 0 .. MaxTimers
    /\ connected \in BOOLEAN
    /\ dialogs \in 0 .. MaxTimers + 1

-----------------------------------------------------------------------------
(* Vocabulary of the properties *)

Cells == Idx \X Idx

\* The 8 winning lines: 3 rows, 3 columns, 2 diagonals.
Lines ==
    {{<<i, j>> : j \in Idx} : i \in Idx} \cup
    {{<<i, j>> : i \in Idx} : j \in Idx} \cup
    {{<<0, 0>>, <<1, 1>>, <<2, 2>>}, {<<0, 2>>, <<1, 1>>, <<2, 0>>}}

HasLine(b, p) == \E L \in Lines : \A c \in L : b[c[1]][c[2]] = p

Marked(b, p) == Cardinality({c \in Cells : b[c[1]][c[2]] = p})

Occupied(b) == Cardinality({c \in Cells : b[c[1]][c[2]] # " "})

NoEmpty(b) == Occupied(b) = 9

InRange(row, col) == row \in Idx /\ col \in Idx

\* AwaitingMove(X) on an empty board.
AwaitingX(g) ==
    /\ \A c \in Cells : g.board[c[1]][c[2]] = " "
    /\ g.currentPlayer = "X"
    /\ g.gameActive

\* The controller is in GameOver: a handler has emitted gameOver and is
\* still in the listener's message box, or it has returned and left the
\* board disabled.
GameOver == dialogs > 0 \/ ~gameActive

\* The side a winner label stands for.
SideOf(label) ==
    IF label \in {"You", "Player 1"} THEN "X"
    ELSE IF label \in {"AI", "Player 2"} THEN "O"
    ELSE "none"

\* The last call was a click or an aiMove that placed a mark.
MoveAccepted == last.op \in {"onCellClicked", "aiMove"} /\ last.ret

\* The labels of the gameOver signals the last handler emitted.
Reported == {signals[k].arg : k \in {n \in 1 .. Len(signals) :
                                        signals[n].sig = "gameOver"}}

-----------------------------------------------------------------------------
(* The turn controller: outcome of an accepted move *)

\* What a step that placed a mark through onCellClicked or aiMove must do.
OutcomeEvaluated ==
    (last'.op \in {"onCellClicked", "aiMove"} /\ last'.ret) =>
        /\ Len(signals') >= 1
        /\ signals'[1].sig = "moveMade"
        /\ signals'[1].arg = currentPlayer
        /\ InRange(signals'[1].row, signals'[1].col)
        /\ board[signals'[1].row][signals'[1].col] = " "
        /\ LET side == currentPlayer
               b1 == [board EXCEPT ![signals'[1].row][signals'[1].col] = side]
           IN  /\ board' = b1
               /\ IF HasLine(b1, side)
                  THEN /\ Cardinality(Reported') = 1
                       /\ \A w \in Reported' : SideOf(w) = side
                       /\ GameOver'
                       /\ currentPlayer' = side
                  ELSE IF NoEmpty(b1)
                  THEN /\ Reported' = {"Draw"}
                       /\ GameOver'
                       /\ currentPlayer' = side
                  ELSE /\ Reported' = {}
                       /\ currentPlayer' = Other(side)
                       /\ ~GameOver'

\* C1: after every move accepted through onCellClicked or aiMove the outcome
\* is evaluated for the side that moved: a complete line of that side gives
\* gameOver with that side as winner, else a full board gives gameOver
\* "Draw", else the turn passes to the other side and the game stays active;
\* the board changes by the placed mark only.
C1_OutcomeAfterMove == [][OutcomeEvaluated]_vars

\* The computer has just moved and won.
C1_Witness == last = Call("aiMove", TRUE) /\ Reported = {"AI"} /\ GameOver

-----------------------------------------------------------------------------
(* The board model: makeMove *)

\* C2: on an active board makeMove(row, col, player) returns true exactly
\* when row and col are in 0..2 and the cell is Empty, and an accepted call
\* sets that cell to player and leaves the other eight cells, currentPlayer
\* and gameActive as they were.
C2_MakeMoveAccepts ==
    gameActive =>
        \A row \in Coords : \A col \in Coords : \A player \in Players :
            \A r \in {makeMove(This, row, col, player)} :
                /\ r.ret <=> (/\ 0 =< row /\ row < 3 /\ 0 =< col /\ col < 3
                              /\ board[row][col] = " ")
                /\ r.ret =>
                     /\ r.g.board = [board EXCEPT ![row][col] = player]
                     /\ r.g.currentPlayer = currentPlayer
                     /\ r.g.gameActive = gameActive

\* A direct makeMove has just been accepted on a board that held marks.
C2_Witness ==
    /\ last = Call("makeMove", TRUE)
    /\ gameActive
    /\ Occupied(board) >= 2
    /\ Occupied(board) < 9

\* C3: every makeMove call with an out-of-range row or column or an
\* occupied target cell returns false and leaves the whole object (the nine
\* cells, the buttons, currentPlayer, gameActive) exactly as it was, so the
\* next call is judged on the same board.
C3_RejectedMoveNoChange ==
    \A row \in Coords : \A col \in Coords : \A player \in Players :
        (~InRange(row, col) \/ board[row][col] # " ") =>
            makeMove(This, row, col, player) = [g |-> This, ret |-> FALSE]

\* A direct makeMove has just been rejected on an active board that still
\* has an Empty cell to retry with.
C3_Witness ==
    /\ last = Call("makeMove", FALSE)
    /\ gameActive
    /\ Occupied(board) \in 1 .. 8

-----------------------------------------------------------------------------
(* GameOver is terminal *)

\* C4: once the controller is in GameOver, every later click and every later
\* firing of an AI timer is rejected and leaves the board unchanged.
C4_GameOverRejectsAll ==
    [][ (GameOver /\ last'.op \in {"onCellClicked", "aiMove"}) =>
            (~last'.ret /\ board' = board) ]_vars

\* C5, as claimed: on a board that holds a complete line or has no Empty
\* cell, every makeMove call returns false and changes nothing.
C5_TerminalBoardRejects ==
    (HasLine(board, "X") \/ HasLine(board, "O") \/ NoEmpty(board)) =>
        \A row \in Coords : \A col \in Coords : \A player \in Players :
            makeMove(This, row, col, player) = [g |-> This, ret |-> FALSE]

\* C5, amended: on a board whose gameActive is false or that has no Empty
\* cell, every makeMove call returns false and changes nothing (a complete
\* line alone does not make makeMove reject).
C5_InactiveOrFullRejects ==
    (~gameActive \/ NoEmpty(board)) =>
        \A row \in Coords : \A col \in Coords : \A player \in Players :
            makeMove(This, row, col, player) = [g |-> This, ret |-> FALSE]

\* A makeMove has just been rejected on a disabled board with Empty cells.
C5_Witness ==
    /\ last = Call("makeMove", FALSE)
    /\ ~gameActive
    /\ Occupied(board) \in 1 .. 8

-----------------------------------------------------------------------------
(* checkWinner *)

\* C6: for X and for O, checkWinner(p) is true iff one of the 8 lines has
\* its three cells equal to p.
C6_CheckWinnerIffLine ==
    \A p \in Players : checkWinner(This, p) <=> HasLine(board, p)

\* A board whose only complete line is the second diagonal, held by O.
C6_Witness ==
    /\ board[0][2] = "O" /\ board[1][1] = "O" /\ board[2][0] = "O"
    /\ Cardinality({L \in Lines : \A c \in L : board[c[1]][c[2]] = "O"}) = 1
    /\ checkWinner(This, "O")

\* C7: checkWinner('X') and checkWinner('O') are never both true.
C7_NeverTwoWinners == ~(checkWinner(This, "X") /\ checkWinner(This, "O"))

\* O has completed a line on a board on which X holds three marks or more.
C7_Witness ==
    /\ checkWinner(This, "O")
    /\ Marked(board, "X") >= 3
    /\ MoveAccepted

-----------------------------------------------------------------------------
(* Occupied cells *)

Keeps(b, b2) == \A c \in Cells : b[c[1]][c[2]] # " " => b2[c[1]][c[2]] = b[c[1]][c[2]]

\* C8: a step other than resetBoard changes no occupied cell; an accepted
\* makeMove raises the number of occupied cells by exactly one, a rejected
\* one leaves it equal.
C8_OccupiedCellsStay ==
    [][ last'.op # "resetBoard" =>
            \/ /\ board' = board
               /\ ~(last'.op = "makeMove" /\ last'.ret)
            \/ /\ board' # board
               /\ Keeps(board, board')
               /\ last'.op = "makeMove" =>
                      /\ last'.ret
                      /\ Occupied(board') = Occupied(board) + 1
      ]_vars

\* An accepted makeMove on a board that already held marks.
C8_Witness ==
    /\ last = Call("makeMove", TRUE)
    /\ Occupied(board) >= 3

-----------------------------------------------------------------------------
(* Draw *)

FullBoards == [Idx -> [Idx -> Players]]

\* C9: the last handler reported "Draw" exactly when its move filled the
\* ninth cell and the mover has no complete line; a ninth move that completes
\* a line is reported as a win of the mover; and minimax scores every full
\* board without a line 0.
C9_DrawIffFullNoLine ==
    /\ MoveAccepted =>
         LET mover == signals[1].arg
         IN  /\ ("Draw" \in Reported) <=>
                    (NoEmpty(board) /\ ~HasLine(board, mover))
             /\ (NoEmpty(board) /\ HasLine(board, mover)) =>
                    (Reported # {} /\ \A w \in Reported : SideOf(w) = mover)
    /\ NoEmpty(board) =>
         \A b \in FullBoards : \A p \in Players :
             (~HasLine(b, "X") /\ ~HasLine(b, "O")) => minimax(b, p) = 0

\* The ninth mark has just been placed and the game reported as a draw.
C9_Witness == MoveAccepted /\ Reported = {"Draw"} /\ NoEmpty(board)

-----------------------------------------------------------------------------
(* Construction and reset *)

\* C10: a freshly constructed board and a board right after resetBoard() is
\* in AwaitingMove(X): nine Empty cells, currentPlayer 'X', gameActive true;
\* and resetBoard() called in the present state gives such a board.
C10_FreshOrResetAwaitsX ==
    /\ last.op \in {"new", "resetBoard"} => AwaitingX(This)
    /\ AwaitingX(resetBoard(This))

\* resetBoard has just been called.
C10_Witness == last = Call("resetBoard", FALSE)

-----------------------------------------------------------------------------
(* The computer's reply *)

\* C11: in a PvAI game no click is applied between an accepted X move and
\* the computer's reply (a click is accepted only on X's turn with no AI
\* timer pending), and every O mark is placed by aiMove.
C11_ReplyAtomic ==
    [][ gameMode = 2 =>
            /\ (last'.op = "onCellClicked" /\ last'.ret) =>
                   (currentPlayer = "X" /\ timers = 0)
            /\ Marked(board', "O") > Marked(board, "O") =>
                   last'.op = "aiMove"
      ]_vars

-----------------------------------------------------------------------------
(* The search on its own *)

\* Most Empty cells of the boards the search is applied to.
MaxEmpty == 4

AllBoards == [Idx -> [Idx -> {" ", "X", "O"}]]

Board(r0, r1, r2) ==
    [row \in Idx |-> [col \in Idx |-> (<<r0, r1, r2>>[row + 1])[col + 1]]]

\* X X .
\* O O .
\* . . .
BoardOwnWin == Board(<<"X", "X", " ">>, <<"O", "O", " ">>, <<" ", " ", " ">>)

\* X X .
\* . O .
\* . . .
BoardBlock == Board(<<"X", "X", " ">>, <<" ", "O", " ">>, <<" ", " ", " ">>)

\* The boards the search is applied to: every board with at most MaxEmpty
\* Empty cells (won, full and unbalanced ones included: direct makeMove
\* calls set up any of them) and the two boards above.
SearchBoards ==
    {b \in AllBoards : Cardinality(EmptyCells(b)) =< MaxEmpty}
        \cup {BoardOwnWin, BoardBlock}

\* minimax as the code runs it: currentBoard is the function's own copy of
\* its by-value argument; the loop from cell k (row-major) on marks a cell
\* on it before the recursive call and unmarks it after the call.  The
\* result is the score and the copy as the loop leaves it.
RECURSIVE minimaxRun(_, _)
RECURSIVE minimaxLoop(_, _, _, _)
\* Variant: the mark is not taken back after the recursive call.
minimaxLoopKeepsMark(currentBoard, player, k, bestScore) ==
    IF k = 9 THEN [board |-> currentBoard, score |-> bestScore]
    ELSE LET i == k \div 3
             j == k % 3
         IN  IF currentBoard[i][j] = " "
             THEN LET placed == [currentBoard EXCEPT ![i][j] = player]
                      score == minimaxRun(placed, Other(player)).score
                  IN  minimaxLoop(placed, player, k + 1,
                                  IF player = "O"
                                  THEN SetMax({bestScore, score})
                                  ELSE SetMin({bestScore, score}))
             ELSE minimaxLoop(currentBoard, player, k + 1, bestScore)

minimaxLoop(currentBoard, player, k, bestScore) ==
    IF k = 9 THEN [board |-> currentBoard, score |-> bestScore]
    ELSE LET i == k \div 3
             j == k % 3
         IN  IF currentBoard[i][j] = " "
             THEN LET placed == [currentBoard EXCEPT ![i][j] = player]
                      score == minimaxRun(placed, Other(player)).score
                      retracted == [placed EXCEPT ![i][j] = " "]
                  IN  minimaxLoop(retracted, player, k + 1,
                                  IF player = "O"
                                  THEN SetMax({bestScore, score})
                                  ELSE SetMin({bestScore, score}))
             ELSE minimaxLoop(currentBoard, player, k + 1, bestScore)

minimaxRun(currentBoard, player) ==
    IF evalIsWinner(currentBoard, "O")
    THEN [board |-> currentBoard, score |-> 10]
    ELSE IF evalIsWinner(currentBoard, "X")
    THEN [board |-> currentBoard, score |-> -10]
    ELSE IF evalIsFull(currentBoard)
    THEN [board |-> currentBoard, score |-> 0]
    ELSE minimaxLoop(currentBoard, player, 0,
                     IF player = "O" THEN -1000 ELSE 1000)

\* findBestMove as the code runs it: the loop from cell k on works on
\* boardCopy; the object g is not written.  The result is the object and
\* boardCopy as the loop leaves them, and the returned point.
RECURSIVE findBestMoveLoop(_, _, _, _, _)
findBestMoveLoop(g, boardCopy, k, bestScore, bestMove) ==
    IF k = 9 THEN [g |-> g, boardCopy |-> boardCopy, ret |-> bestMove]
    ELSE LET i == k \div 3
             j == k % 3
         IN  IF boardCopy[i][j] = " "
             THEN LET placed == [boardCopy EXCEPT ![i][j] = "O"]
                      retracted == [placed EXCEPT ![i][j] = " "]
                      score == minimaxRun(placed, "X").score
                  IN  IF score > bestScore
                      THEN findBestMoveLoop(g, retracted, k + 1, score,
                                            QPoint(i, j))
                      ELSE findBestMoveLoop(g, retracted, k + 1, bestScore,
                                            bestMove)
             ELSE findBestMoveLoop(g, boardCopy, k + 1, bestScore, bestMove)

findBestMoveRun(g) ==
    findBestMoveLoop(g, g.board, 0, -1000, QPoint(-1, -1))

\* A GameBoard(nullptr, 2) on which direct makeMove calls have set up the
\* board b.
SearchBoard(b) ==
    [NewGameBoard(2, FALSE) EXCEPT
         !.board = b,
         !.buttons = [row \in Idx |-> [col \in Idx |-> b[row][col] = " "]]]

InitSearch ==
    /\ \E b \in SearchBoards : Starts(SearchBoard(b))
    /\ last = Call("makeMove", TRUE)

\* findBestMove() is called on the board that was set up.
FindBestMove ==
    /\ last.op = "makeMove"
    /\ \E p \in {findBestMove(This)} :
           /\ Becomes(This)
           /\ last' = Call("findBestMove", p)

\* minimax(board, player) is called with the cells of the board that was
\* set up.
Minimax(player) ==
    /\ last.op = "makeMove"
    /\ \E score \in {minimax(board, player)} :
           /\ Becomes(This)
           /\ last' = Call("minimax", [player |-> player, score |-> score])

NextSearch ==
    \/ FindBestMove
    \/ \E player \in Players : Minimax(player)

SpecSearch == InitSearch /\ [][NextSearch]_vars

-----------------------------------------------------------------------------
(* findBestMove and minimax as functions of the board *)

RowMajor(c) == 3 * c[1] + c[2]

\* The Empty cells of b, each with the score minimax gives the board with
\* 'O' placed there and X to move.
Scored(b) ==
    {<<c, minimax([b EXCEPT ![c[1]][c[2]] = "O"], "X")>> : c \in EmptyCells(b)}

\* C12: findBestMove returns (-1,-1) exactly when the board has no Empty
\* cell, and otherwise the Empty cell that is first in row-major order among
\* the Empty cells whose score minimax(board with 'O' there, 'X') is maximal.
C12_FirstBestCell ==
    last.op = "findBestMove" =>
        \A scored \in {Scored(board)} :
            /\ (last.ret = QPoint(-1, -1)) <=> (EmptyCells(board) = {})
            /\ EmptyCells(board) # {} =>
                   \E best \in scored :
                       /\ last.ret = QPoint(best[1][1], best[1][2])
                       /\ \A other \in scored :
                              \/ other[2] < best[2]
                              \/ /\ other[2] = best[2]
                                 /\ RowMajor(best[1]) =< RowMajor(other[1])

\* findBestMove has passed over a later cell with the same score as the
\* cell it returned, on a board that nobody has won.
C12_Witness ==
    /\ last.op = "findBestMove"
    /\ ~HasLine(board, "X") /\ ~HasLine(board, "O")
    /\ \E a \in Scored(board) : \E b \in Scored(board) :
           /\ last.ret = QPoint(a[1][1], a[1][2])
           /\ RowMajor(a[1]) < RowMajor(b[1])
           /\ a[2] = b[2]
           /\ \E c \in Scored(board) : c[2] < a[2]

\* The scores minimax gives the boards that follow b when player marks one
\* of its Empty cells.
ChildScores(b, player) ==
    {minimax([b EXCEPT ![c[1]][c[2]] = player], Other(player)) :
         c \in EmptyCells(b)}

\* C13: minimax returns the game value with O maximising: 10 on a board with
\* a complete O line, -10 on one with a complete X line, 0 on a full board
\* without a line, otherwise the greatest (O to move) or least (X to move)
\* score of the boards with the mover's mark on one Empty cell and the other
\* side to move; the result is always -10, 0 or 10.
C13_MinimaxIsGameValue ==
    last.op = "minimax" =>
        /\ last.ret.score \in {-10, 0, 10}
        /\ IF HasLine(board, "O") THEN last.ret.score = 10
           ELSE IF HasLine(board, "X") THEN last.ret.score = -10
           ELSE IF NoEmpty(board) THEN last.ret.score = 0
           ELSE \A scores \in {ChildScores(board, last.ret.player)} :
                    /\ last.ret.score \in scores
                    /\ \A s \in scores :
                           IF last.ret.player = "O"
                           THEN s =< last.ret.score
                           ELSE s >= last.ret.score

\* minimax has been called with X to move on a board that nobody has won,
\* on which X has a losing, a drawing and a winning move.
C13_Witness ==
    /\ last.op = "minimax"
    /\ last.ret.player = "X"
    /\ ~HasLine(board, "X") /\ ~HasLine(board, "O")
    /\ ChildScores(board, "X") = {-10, 0, 10}
    /\ last.ret.score = -10

\* C14, as claimed: the search scores a board with a complete X line 10, a
\* board with a complete O line -10 and a full board without a line 0.
C14_XLineScoresPlus ==
    last.op = "minimax" =>
        /\ HasLine(board, "X") => last.ret.score = 10
        /\ HasLine(board, "O") => last.ret.score = -10
        /\ (NoEmpty(board) /\ ~HasLine(board, "X") /\ ~HasLine(board, "O")) =>
               last.ret.score = 0

\* C14, amended: the search scores a board with a complete O line 10, a
\* board with a complete X line and no complete O line -10, and a full board
\* without a line 0.
C14_OLineScoresPlus ==
    last.op = "minimax" =>
        /\ HasLine(board, "O") => last.ret.score = 10
        /\ (HasLine(board, "X") /\ ~HasLine(board, "O")) =>
               last.ret.score = -10
        /\ (NoEmpty(board) /\ ~HasLine(board, "X") /\ ~HasLine(board, "O")) =>
               last.ret.score = 0

\* minimax has scored a board on which only X holds a line, with Empty
\* cells left.
C14_Witness ==
    /\ last.op = "minimax"
    /\ HasLine(board, "X") /\ ~HasLine(board, "O")
    /\ ~NoEmpty(board)
    /\ last.ret.score = -10

\* C15, as claimed: on BoardOwnWin findBestMove returns (1,2), the cell that
\* completes O's row.
C15_TakesOwnWin ==
    (last.op = "findBestMove" /\ board = BoardOwnWin) =>
        last.ret = QPoint(1, 2)

\* C15, amended: on BoardOwnWin findBestMove returns (0,2), the first cell
\* in row-major order that scores 10; (1,2), which completes O's row, scores
\* 10 as well and is passed over.
C15_TakesFirstWinningCell ==
    (last.op = "findBestMove" /\ board = BoardOwnWin) =>
        /\ last.ret = QPoint(0, 2)
        /\ <<<<0, 2>>, 10>> \in Scored(board)
        /\ <<<<1, 2>>, 10>> \in Scored(board)
        /\ HasLine([board EXCEPT ![1][2] = "O"], "O")
        /\ ~HasLine([board EXCEPT ![0][2] = "O"], "O")

\* findBestMove has been called on BoardOwnWin.
C15_Witness == last.op = "findBestMove" /\ board = BoardOwnWin

\* C16: on BoardBlock findBestMove returns (0,2), the cell that keeps X from
\* completing row 0; every other Empty cell scores -10.
C16_BlocksX ==
    (last.op = "findBestMove" /\ board = BoardBlock) =>
        /\ last.ret = QPoint(0, 2)
        /\ \A s \in Scored(board) : s[1] # <<0, 2>> => s[2] = -10

\* findBestMove has been called on BoardBlock.
C16_Witness ==
    /\ last.op = "findBestMove"
    /\ board = BoardBlock
    /\ HasLine([board EXCEPT ![0][2] = "X"], "X")

\* C18: the search changes nothing that outlives it: minimax run on its own
\* copy of the board, marking and unmarking one cell after the other, leaves
\* that copy equal to the board it was called with and returns the score
\* that exploring every cell from the unchanged board gives; findBestMove
\* leaves the object (board, currentPlayer, gameActive) and its boardCopy as
\* they were and returns the same cell.
C18_SearchLeavesBoard ==
    /\ last.op = "minimax" =>
           minimaxRun(board, last.ret.player) =
               [board |-> board, score |-> last.ret.score]
    /\ last.op = "findBestMove" =>
           findBestMoveRun(This) =
               [g |-> This, boardCopy |-> board, ret |-> last.ret]

\* minimax has explored several cells one after the other on a board that
\* nobody has won.
C18_Witness ==
    /\ last.op = "minimax"
    /\ ~HasLine(board, "X") /\ ~HasLine(board, "O")
    /\ Cardinality(EmptyCells(board)) >= 3
    /\ Cardinality(ChildScores(board, last.ret.player)) >= 2

\* The board is terminal: a complete line or no Empty cell.
Terminal(b) == HasLine(b, "X") \/ HasLine(b, "O") \/ NoEmpty(b)

\* C19: findBestMove called on a terminal board does not return a point at
\* all, neither (-1,-1) nor an Empty cell: the call fails.
C19_TerminalSearchFails ==
    (last.op = "findBestMove" /\ Terminal(board)) =>
        last.ret \notin ({QPoint(-1, -1)} \cup
                         {QPoint(c[1], c[2]) : c \in EmptyCells(board)})

-----------------------------------------------------------------------------
(* The computer moving first *)

\* A GameBoard(nullptr, 2) on which switchPlayer() has been called once: it
\* is O's turn on the empty board and aiMove is scheduled.
InitFirst ==
    /\ Starts(switchPlayer(NewGameBoard(2, FALSE)))
    /\ last = Call("switchPlayer", FALSE)

\* The human clicks when it is X's turn.
ClickAsX(row, col) == currentPlayer = "X" /\ Click(row, col)

NextFirst ==
    \/ TimerFires
    \/ \E row \in Idx : \E col \in Idx : ClickAsX(row, col)

SpecFirst == InitFirst /\ [][NextFirst]_vars

\* C17: from the empty board with O moving first and every O move chosen by
\* findBestMove, no play-out reaches a board on which X owns a complete
\* line, whatever X plays.
C17_ONeverLoses == ~HasLine(board, "X")

\* A play-out has ended after X has placed three marks or more.
C17_Witness ==
    /\ ~gameActive
    /\ Marked(board, "X") >= 3
    /\ Marked(board, "O") = Marked(board, "X") + 1

-----------------------------------------------------------------------------
(* GameDialog: the recorded moves and the saved games *)

\* Games that may have been saved when startGame is called again.
MaxSaved == 1

Move(row, col, player) == [row |-> row, col |-> col, player |-> player]

recordMove(ms, row, col, player) == Append(ms, Move(row, col, player))

GameRecord(mode, w, ms) ==
    [mode |-> IF mode = 1 THEN "PvP" ELSE "PvAI", winner |-> w, moves |-> ms]

\* The dialog's slots run on the signals a handler of its board has emitted,
\* in the order of emission: recordMove for moveMade, and onGameOver for
\* gameOver, which stays in its message box with its winner argument.
RECURSIVE Heard(_, _, _)
Heard(ms, ws, sigs) ==
    IF sigs = <<>> THEN [moves |-> ms, gameOvers |-> ws]
    ELSE LET s == Head(sigs)
         IN  IF s.sig = "moveMade"
             THEN Heard(recordMove(ms, s.row, s.col, s.arg), ws, Tail(sigs))
             ELSE Heard(ms, Append(ws, s.arg), Tail(sigs))

Hears(sigs) ==
    /\ moves' = Heard(moves, gameOvers, sigs).moves
    /\ gameOvers' = Heard(moves, gameOvers, sigs).gameOvers
    /\ UNCHANGED <<gameHistory, comboBoxGameList>>

\* The dialog right after startGame(mode).
InitDialog ==
    /\ \E mode \in Modes : Starts(NewGameBoard(mode, TRUE))
    /\ last = Call("startGame", FALSE)

\* The cells the first click of a game is drawn from: one of each kind on
\* the empty board (corner, edge, centre).
FirstClicks == {<<0, 0>>, <<0, 1>>, <<1, 1>>}

DialogClick(row, col) ==
    /\ dialogs = 0
    /\ buttons[row][col]
    /\ moves = <<>> => <<row, col>> \in FirstClicks
    /\ \E r \in {onCellClicked(This, row, col)} :
           /\ r.g.timers =< MaxTimers
           /\ BecomesBoard(r.g)
           /\ Hears(r.g.signals)
           /\ last' = Call("onCellClicked", r.ret)

DialogTimerFires ==
    /\ timers > 0
    /\ \E r \in {aiMove([This EXCEPT !.timers = @ - 1])} :
           /\ r.g.timers =< MaxTimers
           /\ BecomesBoard(r.g)
           /\ Hears(r.g.signals)
           /\ last' = Call("aiMove", r.ret)

\* The innermost message box is closed: onGameOver saves the record, resets
\* and enables the board and clears moves; then the handler that emitted
\* gameOver finishes.
DialogClose ==
    /\ dialogs > 0
    /\ \E g \in {afterGameOver(onGameOverClose(This))} : BecomesBoard(g)
    /\ gameHistory' =
           Append(gameHistory,
                  GameRecord(gameMode, gameOvers[Len(gameOvers)], moves))
    /\ moves' = <<>>
    /\ gameOvers' = SubSeq(gameOvers, 1, Len(gameOvers) - 1)
    /\ UNCHANGED comboBoxGameList
    /\ last' = Call("onGameOver", FALSE)

DialogStartGame(mode) ==
    /\ dialogs = 0
    /\ Len(gameHistory) < MaxSaved
    /\ \E g \in {NewGameBoard(mode, TRUE)} : BecomesBoard(g)
    /\ moves' = <<>>
    /\ UNCHANGED <<gameHistory, gameOvers, comboBoxGameList>>
    /\ last' = Call("startGame", FALSE)

NextDialog ==
    \/ \E row \in Idx : \E col \in Idx : DialogClick(row, col)
    \/ DialogTimerFires
    \/ DialogClose
    \/ \E mode \in Modes : DialogStartGame(mode)

SpecDialog == InitDialog /\ [][NextDialog]_vars

-----------------------------------------------------------------------------
(* The saved record against the game played *)

\* A fresh board after the first k moves of ms have been replayed through
\* makeMove; ret tells whether every one of them was accepted.
RECURSIVE Replayed(_, _)
Replayed(ms, k) ==
    IF k = 0 THEN [g |-> NewGameBoard(1, FALSE), ret |-> TRUE]
    ELSE LET prev == Replayed(ms, k - 1)
             m == makeMove(prev.g, ms[k].row, ms[k].col, ms[k].player)
         IN  [g |-> m.g, ret |-> prev.ret /\ m.ret]

\* The controller's outcome rules applied after the k-th replayed move.
OutcomeAt(ms, k) ==
    LET g == Replayed(ms, k).g
    IN  IF checkWinner(g, ms[k].player) THEN ms[k].player
        ELSE IF isFull(g) THEN "Draw"
        ELSE "none"

LabelOutcome(label) == IF label = "Draw" THEN "Draw" ELSE SideOf(label)

\* The record's moves replay to a terminal state exactly at the last move,
\* with the outcome of the record's winner label.
ReplaysToOutcome(r) ==
    /\ Len(r.moves) >= 1
    /\ Replayed(r.moves, Len(r.moves)).ret
    /\ \A k \in 1 .. Len(r.moves) - 1 : OutcomeAt(r.moves, k) = "none"
    /\ OutcomeAt(r.moves, Len(r.moves)) = LabelOutcome(r.winner)

\* C20: every accepted move is appended to the dialog's list, and the record
\* saved when a game is over holds the moves of that game in play order (they
\* replay to the board the game ended on) and replays through makeMove to a
\* terminal state exactly at its last move, with the outcome of its winner
\* label.
C20_RecordReplaysGame ==
    [][ /\ (last'.op \in {"onCellClicked", "aiMove"} /\ last'.ret) =>
               moves' = Append(moves, Move(signals'[1].row, signals'[1].col,
                                           signals'[1].arg))
        /\ Len(gameHistory') > Len(gameHistory) =>
               \A r \in {gameHistory'[Len(gameHistory')]} :
                   /\ r.moves = moves
                   /\ Replayed(r.moves, Len(r.moves)).g.board = board
                   /\ ReplaysToOutcome(r)
      ]_vars

-----------------------------------------------------------------------------
(* The two move paths of the turn controller *)

\* What a move path leaves behind: whether the game goes on, whose turn it
\* is, and the labels of the gameOver signals it emitted.
Result(r) ==
    [over |-> r.g.dialogs > 0 \/ ~r.g.gameActive,
     turn |-> r.g.currentPlayer,
     labels |-> {r.g.signals[k].arg : k \in {n \in 1 .. Len(r.g.signals) :
                                   r.g.signals[n].sig = "gameOver"}}]

\* C21: in a PvAI game that awaits O, a click on an Empty cell
\* (onCellClicked) and the computer's move to that cell (aiMove once
\* findBestMove has chosen it) produce the same result: the same board, and
\* either the game is over with the same winner label or it continues with
\* the turn flipped to X.  On every board evalIsWinner and evalIsFull agree
\* with checkWinner and isFull.
C21_PathsAgree ==
    /\ \A player \in Players :
           evalIsWinner(board, player) <=> checkWinner(This, player)
    /\ evalIsFull(board) <=> isFull(This)
    /\ (gameMode = 2 /\ gameActive /\ currentPlayer = "O") =>
           \A c \in EmptyCells(board) :
               \A click \in {onCellClicked(This, c[1], c[2])} :
               \A reply \in {aiMoveTo(This, QPoint(c[1], c[2]))} :
                   /\ click.ret /\ reply.ret
                   /\ click.g.board = reply.g.board
                   /\ Result(click) = Result(reply)
                   /\ Result(click).over \/ Result(click).turn = "X"
                   /\ Result(click).labels \subseteq {"AI", "Draw"}

\* A click placed an O that completed a line, and the game was reported won
\* by "AI".
C21_Witness ==
    /\ gameMode = 2
    /\ last = Call("onCellClicked", TRUE)
    /\ signals[1].arg = "O"
    /\ Reported = {"AI"}

\* C22: switchPlayer() flips currentPlayer and a second call restores it;
\* neither call changes a cell.  In a PvP game it never schedules a computer
\* move: no AI timer is ever pending, aiMove never runs, and an aiMove called
\* all the same would leave the board as it is.
C22_SwitchPlayerFlips ==
    /\ \A g \in {switchPlayer(This)} :
           /\ g.currentPlayer = Other(currentPlayer)
           /\ g.currentPlayer # currentPlayer
           /\ g.board = board
           /\ switchPlayer(g).currentPlayer = currentPlayer
           /\ switchPlayer(g).board = board
    /\ gameMode = 1 =>
           /\ timers = 0
           /\ switchPlayer(This).timers = 0
           /\ switchPlayer(switchPlayer(This)).timers = 0
           /\ last.op # "aiMove"
           /\ aiMove(This).g = This

\* A PvP game in which the turn has gone to O for the second time.
C22_Witness ==
    /\ gameMode = 1
    /\ last = Call("onCellClicked", TRUE)
    /\ currentPlayer = "O"
    /\ gameActive
    /\ Occupied(board) = 3

\* C23: in a PvAI game, when an accepted X move has left the game going and
\* switchPlayer() has given the turn to O, the AI timer that fires next, with
\* no click in between, places exactly one 'O' on an Empty cell and changes
\* no other cell; afterwards it is X's turn again unless that O ended the
\* game.
C23_TimerPlacesOneO ==
    [][ ( /\ gameMode = 2
          /\ last = Call("onCellClicked", TRUE)
          /\ signals[1].arg = "X"
          /\ gameActive /\ dialogs = 0
          /\ currentPlayer = "O"
          /\ last'.op = "aiMove" ) =>
            /\ last'.ret
            /\ \E c \in EmptyCells(board) :
                   board' = [board EXCEPT ![c[1]][c[2]] = "O"]
            /\ Marked(board', "O") = Marked(board, "O") + 1
            /\ Marked(board', "X") = Marked(board, "X")
            /\ GameOver' \/ currentPlayer' = "X"
      ]_vars

\* The state testAIIntegration waits for: one X, one O placed by aiMove, and
\* X to move.
C23_Witness ==
    /\ gameMode = 2
    /\ last = Call("aiMove", TRUE)
    /\ Marked(board, "X") = 1
    /\ Marked(board, "O") = 1
    /\ currentPlayer = "X"
    /\ gameActive

-----------------------------------------------------------------------------
(* The board model: filling the board by direct calls *)

\* C24: isFull() is true exactly when no cell is Empty.  On an active board
\* a direct makeMove on an Empty cell takes effect whatever mark it is given
\* and whatever lines the board already holds, so nine calls, one on each
\* cell of a fresh board, leave isFull() true.
C24_FullAfterNineMoves ==
    /\ isFull(This) <=> (Cardinality(EmptyCells(board)) = 0)
    /\ gameActive =>
           \A c \in EmptyCells(board) : \A player \in Players :
               \A m \in {makeMove(This, c[1], c[2], player)} :
                   /\ m.ret
                   /\ m.g.board = [board EXCEPT ![c[1]][c[2]] = player]
                   /\ Cardinality(EmptyCells(m.g.board)) =
                          Cardinality(EmptyCells(board)) - 1
                   /\ isFull(m.g) <=> (Cardinality(EmptyCells(board)) = 1)

\* The board of testIsFull: nine accepted makeMove calls with 'X'.
C24_Witness ==
    /\ last = Call("makeMove", TRUE)
    /\ gameActive
    /\ Marked(board, "X") = 9
    /\ isFull(This)

-----------------------------------------------------------------------------
(* GameDialog: the list of saved games and the replay of one of them *)

\* Most records MainWindow::gameHistory holds.
MaxGames == 2

\* QString("Game %1").arg(n)
GameItem(n) == "Game " \o ToString(n)

\* The loop of on_replayButton_clicked from index i on.
RECURSIVE addGameItems(_, _, _)
addGameItems(items, i, size) ==
    IF i < size
    THEN addGameItems(Append(items, GameItem(i + 1)), i + 1, size)
    ELSE items

\* Variant: the list is not cleared before it is filled.
on_replayButton_clickedKeepsItems(items, history) ==
    IF history = <<>>
    THEN <<>>
    ELSE addGameItems(Append(items, "Select a game..."), 0, Len(history))

\* The items of comboBoxGameList after on_replayButton_clicked.
on_replayButton_clicked(items, history) ==
    IF history = <<>>
    THEN <<>>
    ELSE addGameItems(Append(<<>>, "Select a game..."), 0, Len(history))

\* What onComboBoxActivated(index) shows: a warning, or the ReplayDialog of
\* the moves of record index - 1 (counted from 0, as std::vector does).
onComboBoxActivated(history, index) ==
    IF index =< 0 \/ index > Len(history)
    THEN [index |-> index, shown |-> "Please select a valid game number.",
          moves |-> <<>>]
    ELSE LET selectedGameIndex == index - 1
             record == history[selectedGameIndex + 1]
         IN  IF record.moves = <<>>
             THEN [index |-> index,
                   shown |-> "No move data available for this game.",
                   moves |-> <<>>]
             ELSE [index |-> index, shown |-> "ReplayDialog",
                   moves |-> record.moves]

\* The record of testReplayIntegration, and records with fewer moves.
TestMoves == <<Move(0, 0, "X"), Move(0, 1, "O"), Move(1, 1, "X")>>

TestRecords ==
    {GameRecord(1, "Player 1", SubSeq(TestMoves, 1, n)) : n \in {0, 1, 3}}

\* The replay actions leave the board and the running game alone.
KeepsGame ==
    UNCHANGED <<board, buttons, currentPlayer, gameActive, gameMode, timers,
                connected, dialogs, signals, moves, gameOvers>>

InitReplay ==
    /\ Starts(NewGameBoard(1, TRUE))
    /\ last = Call("startGame", FALSE)

\* A record is appended to MainWindow::gameHistory.
PushBack(record) ==
    /\ Len(gameHistory) < MaxGames
    /\ gameHistory' = Append(gameHistory, record)
    /\ last' = Call("push_back", FALSE)
    /\ UNCHANGED comboBoxGameList
    /\ KeepsGame

ClearHistory ==
    /\ gameHistory' = <<>>
    /\ last' = Call("clear", FALSE)
    /\ UNCHANGED comboBoxGameList
    /\ KeepsGame

ReplayButton ==
    /\ comboBoxGameList' =
           on_replayButton_clicked(comboBoxGameList, gameHistory)
    /\ last' = Call("on_replayButton_clicked", FALSE)
    /\ UNCHANGED gameHistory
    /\ KeepsGame

\* The user picks item index of the list; QComboBox::activated delivers it.
ComboBoxActivated(index) ==
    /\ index < Len(comboBoxGameList)
    /\ last' = Call("onComboBoxActivated",
                    onComboBoxActivated(gameHistory, index))
    /\ UNCHANGED <<gameHistory, comboBoxGameList>>
    /\ KeepsGame

NextReplay ==
    \/ \E record \in TestRecords : PushBack(record)
    \/ ClearHistory
    \/ ReplayButton
    \/ \E index \in 0 .. MaxGames : ComboBoxActivated(index)

SpecReplay == InitReplay /\ [][NextReplay]_vars

\* The items the list is expected to show.
ExpectedItems ==
    <<"Select a game...", "Game 1", "Game 2", "Game 3", "Game 4", "Game 5">>

\* C25: right after on_replayButton_clicked with n >= 1 saved games the list
\* holds exactly n + 1 items, the placeholder and then "Game 1" .. "Game n",
\* whatever it held before; onComboBoxActivated opens a ReplayDialog only
\* for an index in 1 .. n whose record holds at least one move, and then
\* with the moves of that record.
C25_ReplayList ==
    /\ (last.op = "on_replayButton_clicked" /\ Len(gameHistory) >= 1) =>
           /\ Len(comboBoxGameList) = Len(gameHistory) + 1
           /\ comboBoxGameList =
                  SubSeq(ExpectedItems, 1, Len(gameHistory) + 1)
    /\ (last.op = "onComboBoxActivated"
            /\ last.ret.shown = "ReplayDialog") =>
           /\ last.ret.index \in 1 .. Len(gameHistory)
           /\ gameHistory[last.ret.index].moves # <<>>
           /\ last.ret.moves = gameHistory[last.ret.index].moves

\* testReplayIntegration: one saved game of three moves, the button pressed,
\* two items in the list.
C25_Witness ==
    /\ last.op = "on_replayButton_clicked"
    /\ gameHistory = <<GameRecord(1, "Player 1", TestMoves)>>
    /\ Len(comboBoxGameList) = 2

-----------------------------------------------------------------------------
(* The PvAI game as a whole *)

\* C26: in a PvAI game the computer never loses: X never owns a complete
\* line and no game is reported won by "You".
C26_ComputerNeverLoses ==
    gameMode = 2 => (~HasLine(board, "X") /\ "You" \notin Reported)

\* C27: whenever aiMove gets past its guard and invokes findBestMove, the
\* board is not terminal (no complete line, an Empty cell left), and the
\* makeMove of aiMove on the cell findBestMove returns succeeds.
C27_SearchOnLiveBoard ==
    [][ ( /\ last'.op = "aiMove"
          /\ gameActive /\ currentPlayer = "O" /\ gameMode = 2 ) =>
            /\ ~Terminal(board)
            /\ last'.ret
      ]_vars

-----------------------------------------------------------------------------
(* The order of the statements of a move path *)

\* One statement of a handler: a call, or the emission of a signal.
Step(op) == [op |-> op, sig |-> Signal("none", -1, -1, "")]

Emit(s) == [op |-> "emit", sig |-> s]

\* The statements onCellClicked and aiMove run once the mark is on the
\* board g1 holds, in the order of the source.
outcomeSteps(g1, row, col, winner) ==
    <<Emit(Signal("moveMade", row, col, g1.currentPlayer)),
      Step("checkWinner")>> \o
    (IF checkWinner(g1, g1.currentPlayer)
     THEN <<Emit(Signal("gameOver", -1, -1, winner)), Step("disableBoard")>>
     ELSE <<Step("isFull")>> \o
          (IF isFull(g1)
           THEN <<Emit(Signal("gameOver", -1, -1, "Draw")),
                  Step("disableBoard")>>
           ELSE <<Step("switchPlayer")>>))

onCellClickedSteps(g, row, col) ==
    IF ~g.gameActive THEN <<>>
    ELSE LET m == makeMove(g, row, col, g.currentPlayer)
         IN  <<Step("makeMove")>> \o
             (IF m.ret
              THEN outcomeSteps(m.g, row, col, winnerName(m.g))
              ELSE <<>>)

\* aiMove from the test of the point findBestMove has returned.
aiMoveToSteps(g, bestMove) ==
    IF bestMove.x # -1 /\ bestMove.y # -1
    THEN <<Step("makeMove")>> \o
         outcomeSteps(makeMove(g, bestMove.x, bestMove.y, g.currentPlayer).g,
                      bestMove.x, bestMove.y, "AI")
    ELSE <<>>

\* The statements of the handler a step of the board ran, given the cell of
\* the step's first signal.
StepsOf(op, g, row, col) ==
    IF op = "onCellClicked"
    THEN onCellClickedSteps(g, row, col)
    ELSE aiMoveToSteps(g, QPoint(row, col))

\* C28: every signal a move handler emits (moveMade, gameOver) is emitted
\* after the handler has evaluated checkWinner for that move: in the
\* handler's statement order a checkWinner call precedes the emission.
C28_EvaluatedBeforeNotified ==
    [][ (last'.op \in {"onCellClicked", "aiMove"} /\ Len(signals') > 0) =>
            \A steps \in {StepsOf(last'.op, This, signals'[1].row,
                                  signals'[1].col)} :
                \A k \in 1 .. Len(signals') :
                    \E i \in 1 .. Len(steps) :
                        /\ steps[i] = Emit(signals'[k])
                        /\ \E j \in 1 .. (i - 1) :
                               steps[j].op = "checkWinner"
      ]_vars

\* C29: one flip of the turn to O leads to at most one O mark placed by
\* aiMove: an aiMove that has placed a mark is never directly followed,
\* with no move of X and so no new flip to O in between, by an aiMove that
\* places another.
C29_OneReplyPerTurn ==
    [][ (last = Call("aiMove", TRUE) /\ last'.op = "aiMove") => ~last'.ret
      ]_vars

-----------------------------------------------------------------------------
(* After the game: GameDialog::onGameOver has returned *)

\* C30: with onGameOver connected, once the message box is closed and the
\* move handler that ended the game has returned, the board has nine Empty
\* cells, currentPlayer is 'X' and gameActive is false, every button is
\* disabled and onCellClicked would accept no click.  The board stays empty
\* and inactive until resetBoard is called or startGame creates a new
\* GameBoard.
C30_DisabledAfterGameOver ==
    [][ /\ last'.op = "onGameOver" =>
               /\ Occupied(board') = 0
               /\ currentPlayer' = "X"
               /\ ~gameActive'
               /\ \A c \in Cells :
                      /\ ~buttons'[c[1]][c[2]]
                      /\ ~onCellClicked([This EXCEPT !.board = board',
                                            !.buttons = buttons',
                                            !.currentPlayer = currentPlayer',
                                            !.gameActive = gameActive'],
                                        c[1], c[2]).ret
        /\ (connected /\ ~gameActive /\ Occupied(board) = 0
                /\ last'.op \notin {"resetBoard", "startGame"}) =>
               /\ ~gameActive'
               /\ Occupied(board') = 0
               /\ ~(last'.op = "onCellClicked" /\ last'.ret)
      ]_vars

\* A won game whose message box has been closed, with an AI timer of that
\* game still pending.
C30_Witness ==
    /\ last = Call("onGameOver", FALSE)
    /\ connected
    /\ dialogs = 0
    /\ timers > 0
    /\ ~gameActive
    /\ Occupied(board) = 0

-----------------------------------------------------------------------------
(* PvAI play in turns: every O move is made by aiMove *)

\* A PvAI board on its own or in a GameDialog; X opens.
InitTurns ==
    /\ \E conn \in BOOLEAN : Starts(NewGameBoard(2, conn))
    /\ last = Call("new", FALSE)

\* The human clicks only when it is X's turn, so every O is placed by the
\* aiMove of the timer switchPlayer has started.
NextTurns ==
    \/ \E row \in Idx : \E col \in Idx : ClickAsX(row, col)
    \/ TimerFires
    \/ CloseDialog

SpecTurns == InitTurns /\ [][NextTurns]_vars

\* The game awaits a move of player.
Awaits(player) ==
    /\ gameMode = 2
    /\ gameActive /\ dialogs = 0
    /\ currentPlayer = player

\* C31: in PvAI play in which every O move is made by aiMove, a position of
\* minimax value +10 stays one until O has won.  From such a position at O's
\* turn aiMove places a mark and either completes an O line (the game is
\* reported won by "AI") or leaves X a position of value +10; from a
\* position of value +10 that aiMove has left, X cannot end the game, and
\* whatever cell X takes the position at O's turn has value +10 again.  Every move fills a cell, so the game ends,
\* and it can only end with the O win.
C31_WonPositionIsWon ==
    [][ /\ (Awaits("O") /\ minimax(board, "O") = 10
                /\ last'.op = "aiMove") =>
               /\ last'.ret
               /\ Occupied(board') = Occupied(board) + 1
               /\ IF GameOver'
                  THEN HasLine(board', "O") /\ Reported' = {"AI"}
                  ELSE currentPlayer' = "X" /\ minimax(board', "X") = 10
        /\ (Awaits("X") /\ last.op = "aiMove" /\ minimax(board, "X") = 10
                /\ last'.op = "onCellClicked") =>
               /\ last'.ret
               /\ Occupied(board') = Occupied(board) + 1
               /\ ~GameOver'
               /\ currentPlayer' = "O"
               /\ minimax(board', "O") = 10
      ]_vars

\* aiMove has passed over a cell that wins at once: the O it has just placed
\* completes no line although another cell would have, and the position is
\* still worth +10.
C31_Witness ==
    /\ last = Call("aiMove", TRUE)
    /\ Awaits("X")
    /\ ~HasLine(board, "O")
    /\ minimax(board, "X") = 10
    /\ \E d \in EmptyCells(board) :
           HasLine([board EXCEPT ![signals[1].row][signals[1].col] = " ",
                                 ![d[1]][d[2]] = "O"], "O")

-----------------------------------------------------------------------------
(* The marks on the board *)

\* C32: in every state reached from a fresh board through clicks, AI timer
\* firings and resets, in PvP and in PvAI, every cell is Empty, 'X' or 'O',
\* the board holds as many X as O marks or one X more, and while the game is
\* active (not over) currentPlayer is 'X' exactly when the two counts are
\* equal.
C32_MarksAlternate ==
    /\ board \in [Idx -> [Idx -> {" ", "X", "O"}]]
    /\ Marked(board, "X") - Marked(board, "O") \in {0, 1}
    /\ ~GameOver =>
           (currentPlayer = "X" <=> Marked(board, "X") = Marked(board, "O"))

====
